---- MODULE Spec2Model ----
(***************************************************************************)
(* A model of server.js, the backend of the industry-intelligence API:     *)
(*   - the Stripe webhook route, its middleware chain, the two             *)
(*     fire-and-forget handlers and the users table they write (Spec);     *)
(*   - the company-detail and compare endpoints (SpecQuery);               *)
(*   - generateComparisonInsights as a pure function (SpecInsights).       *)
(***************************************************************************)
EXTENDS Integers, Sequences, FiniteSets, TLC

\* ------------------------------------------------------------------------
\* Bounds
\* ------------------------------------------------------------------------

\* Number of webhook requests a behaviour of Spec receives.
MaxReqs == 3

\* Longest companyIds list of a compare request (SpecQuery).
MaxIds == 3

\* Longest array handed to generateComparisonInsights (SpecInsights).
MaxRows == 2

\* ------------------------------------------------------------------------
\* Values
\* ------------------------------------------------------------------------

\* SQL NULL / a JS null or undefined bound as a query parameter.
NULL == "null"

Customers == {"cus_1", "cus_2"}
Subscriptions == {"sub_1", "sub_2"}
Plans == {"basic", "pro"}

\* metadata absent from the session object: metadata.planId throws.
NoMetadata == "no-metadata"

ContentTypes == {"application/json", "text/plain"}

\* The JSON documents a request can carry: an event type and the fields of
\* event.data.object the handlers read.
Payloads ==
    [type : {"checkout.session.completed"},
     customer : Customers,
     subscription : Subscriptions \cup {NULL},
     planId : Plans \cup {NoMetadata},
     id : {NULL}]
    \cup
    [type : {"customer.subscription.deleted"},
     customer : {NULL}, subscription : {NULL}, planId : {NULL},
     id : Subscriptions \cup {NULL}]
    \cup
    [type : {"invoice.paid"},
     customer : {NULL}, subscription : {NULL}, planId : {NULL}, id : {NULL}]

\* What a body with no event in it decodes to.
NoPayload ==
    [type |-> "undefined", customer |-> NULL, subscription |-> NULL,
     planId |-> NULL, id |-> NULL]

VARIABLES
    users,       \* the users table: a set of rows
    usersSeq,    \* the SERIAL sequence behind users.id
    nreq,        \* webhook requests received so far
    req,         \* the latest webhook request, as the route handler saw it
    resp,        \* resp[i]: the responses sent for request i, in order
    handlers,    \* handlers[i]: the async handler request i dispatched
    lastWrite,   \* lastWrite[rowId]: the request whose statement last changed the row
    qReq,        \* SpecQuery: the latest query-endpoint request
    qResp,       \* SpecQuery: the responses sent for it, in order
    qQueries,    \* SpecQuery: the database queries issued for it
    qInsights,   \* SpecQuery: calls of generateComparisonInsights made for it
    companies,   \* SpecQuery: the companies table
    giInput,     \* SpecInsights: the array handed to generateComparisonInsights
    giPerm,      \* SpecInsights: a permutation of that array
    giOut        \* SpecInsights: the results for giInput and giPerm

vars == <<users, usersSeq, nreq, req, resp, handlers, lastWrite,
          qReq, qResp, qQueries, qInsights, companies, giInput, giPerm, giOut>>

webhookVars == <<users, usersSeq, nreq, req, resp, handlers, lastWrite>>
queryVars == <<qReq, qResp, qQueries, qInsights, companies>>
insightVars == <<giInput, giPerm, giOut>>

ReqIds == 1..MaxReqs

\* ------------------------------------------------------------------------
\* The middleware chain in front of the webhook route
\* ------------------------------------------------------------------------

\* A request as it arrives: the body is still the unread byte stream.
IncomingRequest(ct, payload) ==
    [contentType |-> ct, payload |-> payload,
     body |-> [form |-> "stream", content |-> NoPayload], parsed |-> FALSE]

\* app.use(express.json()): JSON-decodes every application/json body, stores
\* the decoded object in req.body and marks the request as parsed; any other
\* body is left unread and req.body becomes the empty object.
ExpressJson(r) ==
    IF r.parsed THEN r
    ELSE IF r.contentType = "application/json"
         THEN [r EXCEPT !.body = [form |-> "parsed", content |-> r.payload],
                        !.parsed = TRUE]
         ELSE [r EXCEPT !.body = [form |-> "empty", content |-> NoPayload]]

\* express.raw({type: 'application/json'}) on the route: stores the raw bytes
\* of an application/json body, unless an earlier parser already read it.
ExpressRaw(r) ==
    IF r.parsed THEN r
    ELSE IF r.contentType = "application/json"
         THEN [r EXCEPT !.body = [form |-> "raw", content |-> r.payload],
                        !.parsed = TRUE]
         ELSE IF r.body.form = "stream"
              THEN [r EXCEPT !.body = [form |-> "empty", content |-> NoPayload]]
              ELSE r

\* The request the route handler runs on.
WebhookMiddleware(ct, payload) == ExpressRaw(ExpressJson(IncomingRequest(ct, payload)))

\* ------------------------------------------------------------------------
\* Signature verification
\* ------------------------------------------------------------------------

Throws == [type |-> "throws", customer |-> NULL, subscription |-> NULL,
           planId |-> NULL, id |-> NULL]

\* stripe.webhooks.constructEvent(req.body, sig, secret): the processor's
\* library either throws or returns the event decoded from the body it was
\* handed. Its verdict on the signature header is an input of the request.
ConstructEvent(body, verdict) ==
    IF verdict THEN body.content ELSE Throws

\* ------------------------------------------------------------------------
\* Responses
\* ------------------------------------------------------------------------

WebhookError == [status |-> 400, body |-> "Webhook Error"]
Received == [status |-> 200, body |-> "received: true"]

\* Mutant: the catch of the signature check logs and falls through to the
\* acknowledgement.
WebhookResponseNoReject(event) == Received

\* The response of the webhook route: 400 from the catch of the signature
\* check, {received: true} after the switch otherwise.
WebhookResponse(event) ==
    IF event = Throws THEN WebhookError ELSE Received

\* ------------------------------------------------------------------------
\* The handlers and their SQL statements
\* ------------------------------------------------------------------------

NoHandler == [kind |-> "none", pc |-> "idle", params |-> <<>>]

\* handleSuccessfulPayment up to its await: destructure the session and
\* issue the upsert; a missing metadata throws inside the try and is caught
\* before any query is issued.
HandleSuccessfulPayment(session) ==
    IF session.planId = NoMetadata
    THEN [kind |-> "upsert", pc |-> "caught", params |-> <<>>]
    ELSE [kind |-> "upsert", pc |-> "awaiting",
          params |-> <<session.customer, session.subscription, session.planId, "active">>]

\* handleSubscriptionCancellation up to its await.
HandleSubscriptionCancellation(subscription) ==
    [kind |-> "cancel", pc |-> "awaiting", params |-> <<"cancelled", subscription.id>>]

\* The switch on event.type.
Dispatch(event) ==
    CASE event.type = "checkout.session.completed" -> HandleSuccessfulPayment(event)
      [] event.type = "customer.subscription.deleted" -> HandleSubscriptionCancellation(event)
      [] OTHER -> NoHandler

\* The rows a UNIQUE (stripe_customer_id) conflict names: NULL conflicts with nothing.
Conflicting(rows, customer) ==
    IF customer = NULL THEN {} ELSE {r \in rows : r.stripe_customer_id = customer}

\* Mutant: a plain INSERT, no ON CONFLICT clause.
InsertUser(rows, p, newId) ==
    rows \cup {[id |-> newId, stripe_customer_id |-> p[1],
                subscription_id |-> p[2], plan_id |-> p[3], status |-> p[4]]}

\* Mutant: the DO UPDATE SET list leaves status out.
UpsertUserKeepStatus(rows, p, newId) ==
    IF Conflicting(rows, p[1]) # {}
    THEN {IF r \in Conflicting(rows, p[1])
          THEN [r EXCEPT !.subscription_id = p[2], !.plan_id = p[3]]
          ELSE r : r \in rows}
    ELSE rows \cup {[id |-> newId, stripe_customer_id |-> p[1],
                     subscription_id |-> p[2], plan_id |-> p[3], status |-> p[4]]}

\* INSERT INTO users (...) VALUES ($1, $2, $3, $4)
\* ON CONFLICT (stripe_customer_id) DO UPDATE SET subscription_id = $2,
\* plan_id = $3, status = $4; newId is the value drawn from the id sequence.
UpsertUser(rows, p, newId) ==
    IF Conflicting(rows, p[1]) # {}
    THEN {IF r \in Conflicting(rows, p[1])
          THEN [r EXCEPT !.subscription_id = p[2], !.plan_id = p[3], !.status = p[4]]
          ELSE r : r \in rows}
    ELSE rows \cup {[id |-> newId, stripe_customer_id |-> p[1],
                     subscription_id |-> p[2], plan_id |-> p[3], status |-> p[4]]}

\* Mutant: NULL compared as a value (IS NOT DISTINCT FROM).
MatchingNullAsValue(rows, subscription) ==
    {r \in rows : r.subscription_id = subscription}

\* The rows WHERE subscription_id = $2 selects: NULL equals nothing.
Matching(rows, subscription) ==
    IF subscription = NULL THEN {} ELSE {r \in rows : r.subscription_id = subscription}

\* UPDATE users SET status = $1 WHERE subscription_id = $2
CancelSubscription(rows, p) ==
    {IF r \in Matching(rows, p[2]) THEN [r EXCEPT !.status = p[1]] ELSE r : r \in rows}

\* The ids of the rows a statement inserts or updates.
RowsWritten(rows, h, newId) ==
    IF h.kind = "upsert"
    THEN IF Conflicting(rows, h.params[1]) # {}
         THEN {r.id : r \in Conflicting(rows, h.params[1])}
         ELSE {newId}
    ELSE {r.id : r \in Matching(rows, h.params[2])}

\* ------------------------------------------------------------------------
\* Actions of the webhook
\* ------------------------------------------------------------------------

\* POST /api/stripe-webhook: middleware, signature check, dispatch, response.
\* The handler it dispatches is left awaiting its query.
StripeWebhook ==
    /\ nreq < MaxReqs
    /\ \E ct \in ContentTypes, payload \in Payloads, verdict \in BOOLEAN :
         LET i == nreq + 1
             r == WebhookMiddleware(ct, payload)
             event == ConstructEvent(r.body, verdict)
         IN /\ nreq' = i
            /\ req' = [contentType |-> ct, bodyForm |-> r.body.form,
                       eventType |-> r.body.content.type, verified |-> (event # Throws)]
            /\ handlers' = [handlers EXCEPT
                              ![i] = IF event = Throws THEN NoHandler ELSE Dispatch(event)]
            /\ resp' = [resp EXCEPT ![i] = Append(@, WebhookResponse(event))]
    /\ UNCHANGED <<users, usersSeq, lastWrite>>
    /\ UNCHANGED <<queryVars, insightVars>>

\* The database runs the statement handler i is awaiting; the handler then
\* logs its success and ends.
QueryResolves(i) ==
    /\ handlers[i].pc = "awaiting"
    /\ LET h == handlers[i]
           newId == usersSeq + 1
       IN /\ users' = IF h.kind = "upsert"
                      THEN UpsertUser(users, h.params, newId)
                      ELSE CancelSubscription(users, h.params)
          /\ usersSeq' = IF h.kind = "upsert" THEN newId ELSE usersSeq
          /\ lastWrite' = [id \in 1..MaxReqs |->
                             IF id \in RowsWritten(users, h, newId) THEN i ELSE lastWrite[id]]
    /\ handlers' = [handlers EXCEPT ![i] = [@ EXCEPT !.pc = "done", !.params = <<>>]]
    /\ UNCHANGED <<nreq, req, resp>>
    /\ UNCHANGED <<queryVars, insightVars>>

\* Mutant: the handler is awaited by the route, whose error path answers 500.
QueryRejectsAnswers(i) ==
    /\ handlers[i].pc = "awaiting"
    /\ handlers' = [handlers EXCEPT ![i] = [@ EXCEPT !.pc = "caught", !.params = <<>>]]
    /\ resp' = [resp EXCEPT ![i] = Append(@, [status |-> 500, body |-> "error"])]
    /\ UNCHANGED <<users, usersSeq, nreq, req, lastWrite>>
    /\ UNCHANGED <<queryVars, insightVars>>

\* The query of handler i rejects (connection lost, statement error): the
\* catch of the handler logs the error and the handler ends.
QueryRejects(i) ==
    /\ handlers[i].pc = "awaiting"
    /\ handlers' = [handlers EXCEPT ![i] = [@ EXCEPT !.pc = "caught", !.params = <<>>]]
    /\ UNCHANGED <<users, usersSeq, nreq, req, resp, lastWrite>>
    /\ UNCHANGED <<queryVars, insightVars>>

InitWebhook ==
    /\ users = {}
    /\ usersSeq = 0
    /\ nreq = 0
    /\ req = [contentType |-> "none", bodyForm |-> "stream", eventType |-> "undefined",
              verified |-> FALSE]
    /\ resp = [i \in ReqIds |-> <<>>]
    /\ handlers = [i \in ReqIds |-> NoHandler]
    /\ lastWrite = [id \in 1..MaxReqs |-> 0]

\* No query-endpoint request is being handled.
NoQueryRequest ==
    [endpoint |-> "none", id |-> 0, hasIds |-> FALSE, ids |-> <<>>, results |-> <<>>]

InitQueryIdle ==
    /\ qReq = NoQueryRequest
    /\ qResp = <<>>
    /\ qQueries = 0
    /\ qInsights = 0
    /\ companies = {}

InitInsightsIdle ==
    /\ giInput = <<>>
    /\ giPerm = <<>>
    /\ giOut = <<>>

Init == InitWebhook /\ InitQueryIdle /\ InitInsightsIdle

Next ==
    \/ StripeWebhook
    \/ \E i \in ReqIds : QueryResolves(i)
    \/ \E i \in ReqIds : QueryRejects(i)

Spec == Init /\ [][Next]_vars

\* ------------------------------------------------------------------------
\* generateComparisonInsights
\* ------------------------------------------------------------------------

\* A nullable numeric column: <<>> is NULL, <<n>> the number n.
\* market_cap is held in units of $10M (a hundredth of a billion),
\* growth_rate in hundredths of a percent, avg_sentiment in tenths.
Null == <<>>

\* JS arithmetic on a column value: null counts as 0.
ToNumber(v) == IF v = Null THEN 0 ELSE v[1]

\* Number.prototype.toFixed(1) of hundredths/100: the value rounded to one
\* decimal, as its sign, whole part and first decimal (5.0 is <<1, 5, 0>>).
ToFixed1(hundredths) ==
    LET mag == IF hundredths < 0 THEN -hundredths ELSE hundredths
        tenths == (mag + 5) \div 10
    IN <<IF hundredths < 0 /\ tenths > 0 THEN -1 ELSE 1, tenths \div 10, tenths % 10>>

\* growth_rate?.toFixed(1): undefined when the growth rate is null.
GrowthText(v) ==
    IF v = Null THEN [defined |-> FALSE, digits |-> <<>>]
    ELSE [defined |-> TRUE, digits |-> ToFixed1(v[1])]

\* [...companies].sort((a, b) => key(b) - key(a)): a stable descending sort;
\* keys[i] is the number the comparator reads from arr[i].
SortDescending(arr, keys) ==
    LET n == Len(arr)
        pos(i) == Cardinality({j \in 1..n : keys[j] > keys[i]})
                  + Cardinality({j \in 1..(i - 1) : keys[j] = keys[i]}) + 1
    IN [k \in 1..n |-> arr[CHOOSE i \in 1..n : pos(i) = k]]

RECURSIVE SumSentiment(_)
\* companies.reduce((sum, c) => sum + (c.avg_sentiment || 0), 0)
SumSentiment(arr) ==
    IF arr = <<>> THEN 0
    ELSE SumSentiment(SubSeq(arr, 1, Len(arr) - 1)) + ToNumber(arr[Len(arr)].avg_sentiment)

\* avgSentiment > 0.6 ? 'positive' : avgSentiment > 0.4 ? 'neutral' : 'negative',
\* with the sum in tenths: sum / (10 n) > 0.6 iff sum > 6 n.
SentimentClass(sum, n) ==
    IF sum > 6 * n THEN "positive"
    ELSE IF sum > 4 * n THEN "neutral" ELSE "negative"

\* Reading .name of sortedByMarketCap[0] when the array is empty.
TypeError == <<"TypeError">>

\* generateComparisonInsights(companies): the three insight strings, each as
\* its fixed text and the values interpolated into it.
GenerateComparisonInsights(cs) ==
    IF cs = <<>> THEN TypeError
    ELSE LET sortedByMarketCap ==
                 SortDescending(cs, [i \in 1..Len(cs) |-> ToNumber(cs[i].market_cap)])
             sortedByGrowth ==
                 SortDescending(cs, [i \in 1..Len(cs) |-> ToNumber(cs[i].growth_rate)])
         IN <<[text |-> "leads in market capitalization",
               name |-> sortedByMarketCap[1].name,
               value |-> ToFixed1(ToNumber(sortedByMarketCap[1].market_cap))],
              [text |-> "shows highest growth rate",
               name |-> sortedByGrowth[1].name,
               value |-> GrowthText(sortedByGrowth[1].growth_rate)],
              [text |-> "Overall market sentiment is",
               name |-> "",
               value |-> SentimentClass(SumSentiment(cs), Len(cs))]>>

\* ------------------------------------------------------------------------
\* The query endpoints
\* ------------------------------------------------------------------------

\* Ids a request can name: companies 1 and 2 may exist, 3 never does.
CompanyIds == {1, 2, 3}

CompanyNames == [i \in {1, 2} |-> IF i = 1 THEN "Acme" ELSE "Blue"]

\* The rows the compare query can return for a company: the company's
\* columns with its aggregates.
CompanyRows(i) ==
    [id : {i}, name : {CompanyNames[i]},
     market_cap : {<<200>>, <<500>>},
     growth_rate : {Null, <<0>>, <<1250>>},
     avg_sentiment : {Null, <<5>>, <<9>>}]

\* The tables the server can be started on.
CompanyTables ==
    {t1 \cup t2 : t1 \in {{}} \cup {{r} : r \in CompanyRows(1)},
                  t2 \in {{}} \cup {{r} : r \in CompanyRows(2)}}

\* Result sets of the financial_metrics and market_data queries.
MetricRowSets == {<<>>, <<"fm_1">>, <<"fm_1", "fm_2">>}
MarketRowSets == {<<>>, <<"md_1">>}

\* A settled pool.query: fulfilled with rows, or rejected.
Fulfilled(rows) == [ok |-> TRUE, rows |-> rows]
Rejected == [ok |-> FALSE, rows |-> <<>>]

\* Every order in which the rows of set S can come back.
Orderings(S) ==
    {f \in [1..Cardinality(S) -> S] : \A i, j \in 1..Cardinality(S) : f[i] = f[j] => i = j}

ErrorResponse(status, message) == [status |-> status, body |-> [error |-> message]]

\* Mutant: the empty-result check is missing.
CompanyDetailResponseNoCheck(company, metrics, market) ==
    IF ~(company.ok /\ metrics.ok /\ market.ok)
    THEN ErrorResponse(500, "Failed to fetch company details")
    ELSE [status |-> 200,
          body |-> [company |-> IF company.rows = <<>> THEN <<>> ELSE company.rows[1],
                    financialMetrics |-> metrics.rows,
                    marketData |-> market.rows]]

\* GET /api/companies/:id after Promise.all has settled: 500 from the catch
\* when any query rejected, 404 when the company query returned no row, the
\* detail document otherwise.
CompanyDetailResponse(company, metrics, market) ==
    IF ~(company.ok /\ metrics.ok /\ market.ok)
    THEN ErrorResponse(500, "Failed to fetch company details")
    ELSE IF Len(company.rows) = 0
         THEN ErrorResponse(404, "Company not found")
         ELSE [status |-> 200,
               body |-> [company |-> company.rows[1],
                         financialMetrics |-> metrics.rows,
                         marketData |-> market.rows]]

\* Mutant: the length check is off by one.
TooFewCompaniesOffByOne(hasIds, ids) == ~hasIds \/ Len(ids) < 1

\* !companyIds || companyIds.length < 2
TooFewCompanies(hasIds, ids) == ~hasIds \/ Len(ids) < 2

\* POST /api/compare once the query has settled: 500 from the catch when the
\* query rejected or generateComparisonInsights threw, the comparison
\* document otherwise.
CompareResponse(result) ==
    IF ~result.ok \/ GenerateComparisonInsights(result.rows) = TypeError
    THEN ErrorResponse(500, "Failed to compare companies")
    ELSE [status |-> 200,
          body |-> [companies |-> result.rows,
                    insights |-> GenerateComparisonInsights(result.rows)]]

IdLists == UNION {[1..n -> CompanyIds] : n \in 0..MaxIds}

\* GET /api/companies/:id
GetCompany ==
    /\ qReq = NoQueryRequest
    /\ \E id \in CompanyIds, cOk, mOk, kOk \in BOOLEAN,
          m \in MetricRowSets, k \in MarketRowSets :
         LET \* id is the primary key: at most one row, so one ordering
             c == CHOOSE f \in Orderings({r \in companies : r.id = id}) : TRUE
             company == IF cOk THEN Fulfilled(c) ELSE Rejected
             metrics == IF mOk THEN Fulfilled(m) ELSE Rejected
             market == IF kOk THEN Fulfilled(k) ELSE Rejected
         IN /\ qReq' = [endpoint |-> "detail", id |-> id, hasIds |-> FALSE, ids |-> <<>>,
                        results |-> <<company, metrics, market>>]
            /\ qQueries' = 3
            /\ qInsights' = 0
            /\ qResp' = <<CompanyDetailResponse(company, metrics, market)>>
    /\ UNCHANGED companies
    /\ UNCHANGED <<webhookVars, insightVars>>

\* POST /api/compare with a body the validation refuses.
CompareRefused ==
    /\ qReq = NoQueryRequest
    /\ \E hasIds \in BOOLEAN, ids \in IdLists :
         /\ hasIds \/ ids = <<>>
         /\ TooFewCompanies(hasIds, ids)
         /\ qReq' = [endpoint |-> "compare", id |-> 0, hasIds |-> hasIds, ids |-> ids,
                     results |-> <<>>]
         /\ qQueries' = 0
         /\ qInsights' = 0
         /\ qResp' = <<ErrorResponse(400, "At least 2 companies required for comparison")>>
    /\ UNCHANGED companies
    /\ UNCHANGED <<webhookVars, insightVars>>

\* POST /api/compare with a body the validation lets through: the query is
\* issued and, when it is fulfilled, the insights are generated from its rows.
CompareRuns ==
    /\ qReq = NoQueryRequest
    /\ \E hasIds \in BOOLEAN, ids \in IdLists, dbOk \in BOOLEAN :
         /\ hasIds \/ ids = <<>>
         /\ ~TooFewCompanies(hasIds, ids)
         /\ \E rows \in Orderings({r \in companies : \E n \in DOMAIN ids : ids[n] = r.id}) :
              LET result == IF dbOk THEN Fulfilled(rows) ELSE Rejected
              IN /\ qReq' = [endpoint |-> "compare", id |-> 0, hasIds |-> hasIds,
                             ids |-> ids, results |-> <<result>>]
                 /\ qQueries' = 1
                 /\ qInsights' = IF dbOk THEN 1 ELSE 0
                 /\ qResp' = <<CompareResponse(result)>>
    /\ UNCHANGED companies
    /\ UNCHANGED <<webhookVars, insightVars>>

\* The response has been sent and the request is over; the endpoints keep
\* nothing from one request to the next.
RequestEnds ==
    /\ qReq # NoQueryRequest
    /\ qReq' = NoQueryRequest
    /\ qResp' = <<>>
    /\ qQueries' = 0
    /\ qInsights' = 0
    /\ UNCHANGED companies
    /\ UNCHANGED <<webhookVars, insightVars>>

InitQuery ==
    /\ qReq = NoQueryRequest
    /\ qResp = <<>>
    /\ qQueries = 0
    /\ qInsights = 0
    /\ companies \in CompanyTables

NextQuery ==
    \/ GetCompany
    \/ CompareRefused
    \/ CompareRuns
    \/ RequestEnds

InitSpecQuery == InitWebhook /\ InitQuery /\ InitInsightsIdle

SpecQuery == InitSpecQuery /\ [][NextQuery]_vars

\* ------------------------------------------------------------------------
\* generateComparisonInsights applied to an array and to a permutation of it
\* ------------------------------------------------------------------------

InsightNames == {"Acme", "Blue"}

InsightRows ==
    [name : InsightNames,
     market_cap : {<<200>>, <<500>>},
     growth_rate : {Null, <<0>>, <<1250>>},
     avg_sentiment : {Null, <<9>>}]

InsightArrays == UNION {[1..n -> InsightRows] : n \in 1..MaxRows}

\* The rearrangements of arr.
Rearrangements(arr) ==
    {[k \in 1..Len(arr) |-> arr[f[k]]] : f \in Orderings(1..Len(arr))}

Generate ==
    /\ giOut = <<>>
    /\ giOut' = <<GenerateComparisonInsights(giInput), GenerateComparisonInsights(giPerm)>>
    /\ UNCHANGED <<giInput, giPerm>>
    /\ UNCHANGED <<webhookVars, queryVars>>

InitInsights ==
    /\ giInput \in InsightArrays
    /\ giPerm \in Rearrangements(giInput)
    /\ giOut = <<>>

NextInsights == Generate

InitSpecInsights == InitWebhook /\ InitQueryIdle /\ InitInsights

SpecInsights == InitSpecInsights /\ [][NextInsights]_vars

\* ------------------------------------------------------------------------
\* Properties of the webhook (checked under Spec)
\* ------------------------------------------------------------------------

\* The step just taken received a request.
RequestReceived == nreq' = nreq + 1

\* The step just taken ran the statement of handler i.
StatementRan(i) == handlers[i].pc = "awaiting" /\ handlers'[i].pc = "done"

\* C1: a webhook request whose signature verification fails is answered with
\* HTTP 400 and nothing else, dispatches no handler (so no statement is ever
\* issued for it), and leaves the users table as it was, whatever its content
\* type, payload and event type.
C1_InvalidSignatureRejected ==
    /\ [][(RequestReceived /\ ~req'.verified) =>
            /\ resp'[nreq'] = <<WebhookError>>
            /\ handlers'[nreq'] = NoHandler
            /\ users' = users
            /\ usersSeq' = usersSeq]_vars
    /\ [](\A i \in ReqIds :
            (resp[i] # <<>> /\ resp[i][1] = WebhookError) =>
                resp[i] = <<WebhookError>> /\ handlers[i] = NoHandler)

\* C1 witness: a checkout event with a bad signature was refused while the
\* table already held a row.
C1_Witness ==
    /\ nreq > 1
    /\ ~req.verified
    /\ req.eventType = "checkout.session.completed"
    /\ resp[nreq] = <<WebhookError>>
    /\ users # {}

\* C2: the body handed to signature verification is always the raw bytes of
\* the request.
C2_RawBodyVerified == nreq > 0 => req.bodyForm = "raw"

\* C3: the users table holds at most one row per stripe_customer_id (and per
\* id); an upsert for a customer with no row adds exactly one row, active,
\* with the event's values; an upsert for a customer with a row changes that
\* row alone, to the event's subscription and plan and status active, and
\* adds none.
C3_OneRowPerCustomer ==
    /\ [](\A r1, r2 \in users :
            (r1.stripe_customer_id = r2.stripe_customer_id \/ r1.id = r2.id) => r1 = r2)
    /\ [][\A i \in ReqIds :
            (StatementRan(i) /\ handlers[i].kind = "upsert") =>
                LET p == handlers[i].params
                    old == {r \in users : r.stripe_customer_id = p[1]}
                    new == {r \in users' : r.stripe_customer_id = p[1]}
                IN /\ Cardinality(new) = 1
                   /\ \A r \in new : /\ r.subscription_id = p[2]
                                     /\ r.plan_id = p[3]
                                     /\ r.status = "active"
                   /\ users' \ new = users \ old
                   /\ IF old = {}
                      THEN /\ Cardinality(users') = Cardinality(users) + 1
                           /\ \A r \in new : \A q \in users : q.id # r.id
                      ELSE /\ Cardinality(users') = Cardinality(users)
                           /\ {r.id : r \in new} = {r.id : r \in old}]_vars

\* C3 witness: two upserts have run and the table holds the single row the
\* first one created, now carrying the values of a later event.
C3_Witness ==
    /\ usersSeq = 2
    /\ \E r \in users :
         /\ users = {r}
         /\ r.id = 1
         /\ r.subscription_id = "sub_2"
         /\ r.plan_id = "pro"
         /\ r.status = "active"
         /\ lastWrite[1] = 2

\* C4: a cancellation for subscription s sets status 'cancelled' on exactly
\* the rows whose subscription_id is s and changes nothing else; with no such
\* row (s unknown, replaced, or NULL) the table is unchanged and the handler
\* still ends without an error; on rows already cancelled it changes nothing.
C4_CancelExactlyMatching ==
    [][\A i \in ReqIds :
         (StatementRan(i) /\ handlers[i].kind = "cancel") =>
             LET s == handlers[i].params[2]
                 hit == {r \in users : s # NULL /\ r.subscription_id = s}
             IN /\ users' = (users \ hit) \cup
                              {[id |-> r.id,
                                stripe_customer_id |-> r.stripe_customer_id,
                                subscription_id |-> r.subscription_id,
                                plan_id |-> r.plan_id,
                                status |-> "cancelled"] : r \in hit}
                /\ (hit = {} => users' = users)
                /\ ((\A r \in hit : r.status = "cancelled") => users' = users)
                /\ usersSeq' = usersSeq
                /\ resp' = resp]_vars

\* C4 witness: a cancellation has changed one row while another row, of a
\* different subscription, is still active.
C4_Witness ==
    \E r1, r2 \in users :
        /\ r1.status = "cancelled"
        /\ lastWrite[r1.id] # 0
        /\ handlers[lastWrite[r1.id]].kind = "cancel"
        /\ r2.status = "active"
        /\ r2.subscription_id # r1.subscription_id

\* C5: a request that passes verification gets exactly one response,
\* 200 {received: true}, whatever its event type; the response is there
\* while the handler still awaits its statement, and no later step (the
\* statement running, or failing and being caught) changes or adds to it.
C5_AlwaysAcknowledged ==
    /\ [](\A i \in ReqIds :
            /\ (i <= nreq <=> Len(resp[i]) = 1)
            /\ (i > nreq => resp[i] = <<>>)
            /\ (handlers[i] # NoHandler => resp[i] = <<Received>>)
            /\ (i = nreq /\ req.verified => resp[i] = <<Received>>))
    /\ [][\A i \in ReqIds : resp[i] # <<>> => resp'[i] = resp[i]]_vars
    /\ [][\A i \in ReqIds :
            (handlers[i].pc = "awaiting" /\ handlers'[i].pc # "awaiting") =>
                handlers'[i].pc \in {"done", "caught"} /\ resp' = resp]_vars

\* C5 witness: one acknowledged request still awaits its statement, another
\* acknowledged request's statement failed and was caught, and the latest
\* acknowledged request was of an unhandled type.
C5_Witness ==
    /\ nreq = 3
    /\ req.verified /\ req.eventType = "invoice.paid"
    /\ \E i, j \in ReqIds :
         /\ handlers[i].pc = "awaiting" /\ resp[i] = <<Received>>
         /\ handlers[j].pc = "caught" /\ handlers[j].kind = "cancel"
         /\ resp[j] = <<Received>>

\* The status a statement of the given kind writes.
StatusWritten(kind) == IF kind = "upsert" THEN "active" ELSE "cancelled"

\* C10: statements of requests in flight together run in any order, and
\* every row carries the status of the statement that changed it last
\* (last write wins), whichever request was received first.
C10_LastWriteWins ==
    \A r \in users :
        /\ lastWrite[r.id] \in 1..nreq
        /\ handlers[lastWrite[r.id]].pc = "done"
        /\ r.status = StatusWritten(handlers[lastWrite[r.id]].kind)

\* C10 witness: the cancellation was received and acknowledged first, the
\* checkout second; both handlers have finished; the only row is the one the
\* checkout inserted, and the cancellation changed it afterwards: the writes
\* ran in the opposite order of the requests and the last one decided.
C10_Witness ==
    /\ nreq = 2
    /\ handlers[1] = [kind |-> "cancel", pc |-> "done", params |-> <<>>]
    /\ handlers[2] = [kind |-> "upsert", pc |-> "done", params |-> <<>>]
    /\ resp[1] = <<Received>> /\ resp[2] = <<Received>>
    /\ usersSeq = 1
    /\ \E r \in users : /\ users = {r}
                        /\ r.status = "cancelled"
                        /\ lastWrite[r.id] = 1

\* ------------------------------------------------------------------------
\* Properties of the query endpoints (checked under SpecQuery)
\* ------------------------------------------------------------------------

\* C6: when the company query of GET /api/companies/:id returns no row, the
\* response is 404 with an error body, whatever rows the metrics and market
\* queries returned; and no response for an id without a company row carries
\* financialMetrics or marketData.
C6_NotFoundCarriesNoData ==
    qReq.endpoint = "detail" =>
        /\ Len(qResp) = 1
        /\ (/\ qReq.results[1].ok /\ qReq.results[2].ok /\ qReq.results[3].ok
            /\ qReq.results[1].rows = <<>>) =>
               /\ qResp[1].status = 404
               /\ DOMAIN qResp[1].body = {"error"}
        /\ (~\E r \in companies : r.id = qReq.id) =>
               /\ qResp[1].status \in {404, 500}
               /\ "financialMetrics" \notin DOMAIN qResp[1].body
               /\ "marketData" \notin DOMAIN qResp[1].body

\* C6 witness: id 3 matches no company, the metrics and market queries
\* both returned rows, and the response is the 404.
C6_Witness ==
    /\ qReq.endpoint = "detail"
    /\ qReq.id = 3
    /\ qReq.results[1] = Fulfilled(<<>>)
    /\ qReq.results[2] = Fulfilled(<<"fm_1", "fm_2">>)
    /\ qReq.results[3] = Fulfilled(<<"md_1">>)
    /\ qResp = <<[status |-> 404, body |-> [error |-> "Company not found"]]>>

\* C7: a compare request with no companyIds, or with fewer than 2 of them,
\* gets exactly one response, a 400, and issues no query and generates no
\* insights; a request with 2 or more ids is never answered 400.
C7_CompareNeedsTwoIds ==
    qReq.endpoint = "compare" =>
        /\ (~qReq.hasIds \/ Len(qReq.ids) < 2) =>
               /\ Len(qResp) = 1
               /\ qResp[1].status = 400
               /\ DOMAIN qResp[1].body = {"error"}
               /\ qQueries = 0
               /\ qInsights = 0
        /\ (qReq.hasIds /\ Len(qReq.ids) >= 2) =>
               \A k \in DOMAIN qResp : qResp[k].status # 400

\* C7 witness: a request naming the one company that exists was refused.
C7_Witness ==
    /\ qReq.endpoint = "compare"
    /\ qReq.hasIds
    /\ qReq.ids = <<1>>
    /\ \E r \in companies : r.id = 1
    /\ qResp[1].status = 400
    /\ qQueries = 0

\* C8: a compare request with at least 2 ids whose query is fulfilled is
\* answered {companies, insights} with exactly three insights, whatever
\* number of rows the query returned.
C8_AlwaysThreeInsights ==
    (/\ qReq.endpoint = "compare"
     /\ qReq.hasIds
     /\ Len(qReq.ids) >= 2
     /\ qReq.results[1].ok) =>
        /\ Len(qResp) = 1
        /\ qResp[1].status = 200
        /\ DOMAIN qResp[1].body = {"companies", "insights"}
        /\ Len(qResp[1].body.insights) = 3

\* ------------------------------------------------------------------------
\* Properties of generateComparisonInsights (checked under SpecInsights)
\* ------------------------------------------------------------------------

\* C9: generateComparisonInsights returns the same three insights for an
\* array and for every permutation of it.
C9_OrderIndependent ==
    giOut # <<>> => giOut[1] = giOut[2]

====
